---- MODULE Spec2Model ----
(***************************************************************************)
(* Model of scripts/bam2count.py: write_matrix (one region's contact       *)
(* matrix, merged from chunk files, normalised and written), sort_BAMtsv   *)
(* (the in-place sort of the written files) and main (the loop over the    *)
(* chromosomes of the alignment header followed by the sort pass).         *)
(***************************************************************************)
EXTENDS Integers, Sequences, FiniteSets, TLC

\* ------------------------------------------------------------------ bounds
\* Longest tuple stream the chunk merger yields for one region.
MaxTuples == 2
\* Largest chromosome length and resolution of the section-offset check.
MaxLength == 4
MaxRes == 3
\* Longest header of the section-offset check.
MaxChroms == 2

\* ------------------------------------------------------------ the fixture
\* bamfile.references and bamfile.lengths of the alignment header, and the
\* resolution of the run: chr1 has one bin, chr2 has two.
references == <<"chr1", "chr2">>
lengths == <<1, 3>>
Resolutions == {2}
\* opts.outdir: absolute with a trailing slash, relative with a trailing
\* slash, absolute without one.  A string is a sequence of tokens.
OutDirs == { <<"/", "d", "/">>, <<"d", "/">>, <<"/", "d">> }
\* opts.biases_file: a path, or the empty string.
BiasFiles == { "biases.pickle", "" }

None == <<"None">>

\* ------------------------------------------------------- pure: GenomeIndex
\* Python 2 integer division x / resolution + 1 (the ceiling, as a mutant).
SectionSizeCeil(x, resolution) == (x + resolution - 1) \div resolution
SectionSize(x, resolution) == x \div resolution + 1

\* sections: one size per reference, in header order.
SectionsOf(lens, resolution) ==
    [i \in 1..Len(lens) |-> SectionSize(lens[i], resolution)]

RECURSIVE SumTo(_, _)
SumTo(s, n) == IF n = 0 THEN 0 ELSE SumTo(s, n - 1) + s[n]

\* section_pos[crm] = (total, total + sections[crm]); total += sections[crm]
SectionPos(lens, resolution) ==
    LET sections == SectionsOf(lens, resolution)
    IN  [i \in 1..Len(lens) |->
            << SumTo(sections, i - 1), SumTo(sections, i - 1) + sections[i] >>]

\* ------------------------------------------------------------ pure: paths
EndsWithSlash(s) == Len(s) > 0 /\ s[Len(s)] = "/"
StartsWithSlash(s) == Len(s) > 0 /\ s[1] = "/"

\* os.path.join(a, b)
PathJoin(a, b) ==
    IF StartsWithSlash(b) THEN b
    ELSE IF Len(a) = 0 \/ EndsWithSlash(a) THEN a \o b
    ELSE a \o <<"/">> \o b

\* the decimal text of a small integer, as '{}'.format and "%i" both give it
Digits == << "0", "1", "2", "3", "4", "5", "6", "7", "8", "9" >>
IntStr(n) == Digits[n + 1]

\* '_bam_{}kb.tsv'.format(resolution / 1000) and "_bam_%ikb.tsv" % (resolution / 1000)
Suffix(resolution) == << "_bam_", IntStr(resolution \div 1000), "kb.tsv" >>

\* fnam = outdir + '{}_bam_{}kb.tsv'.format(region1, resolution / 1000)
Fnam(dir, region, resolution) == dir \o <<region>> \o Suffix(resolution)

\* the path handed to open(): os.path.join(outdir, fnam)
OpenPath(dir, region, resolution) == PathJoin(dir, Fnam(dir, region, resolution))

\* the directory part of a path (with its trailing slash; empty: the cwd)
RECURSIVE Dirname(_)
Dirname(p) ==
    IF Len(p) = 0 \/ EndsWithSlash(p) THEN p
    ELSE Dirname(SubSeq(p, 1, Len(p) - 1))

\* the directory mkdir(outdir) creates
AsDir(dir) == IF EndsWithSlash(dir) THEN dir ELSE dir \o <<"/">>

HasSlash(s) == \E i \in 1..Len(s) : s[i] = "/"

\* glob.glob(outdir + "*_bam_%ikb.tsv" % (resolution / 1000)) on one path:
\* the star matches any run of characters without a slash.
GlobMatch(dir, resolution, p) ==
    LET suf == Suffix(resolution)
        n == Len(p)
    IN  /\ n >= Len(dir) + Len(suf)
        /\ SubSeq(p, 1, Len(dir)) = dir
        /\ SubSeq(p, n - Len(suf) + 1, n) = suf
        /\ ~HasSlash(SubSeq(p, Len(dir) + 1, n - Len(suf)))

\* ------------------------------------------------------------- pure: sort
\* sort -k1n -k2n: ascending by column 1, then column 2.
LineLE(a, b) == a[1] < b[1] \/ (a[1] = b[1] /\ a[2] <= b[2])

RECURSIVE Insert(_, _)
Insert(x, s) ==
    IF Len(s) = 0 THEN <<x>>
    ELSE IF LineLE(x, Head(s)) THEN <<x>> \o s
    ELSE <<Head(s)>> \o Insert(x, Tail(s))

RECURSIVE SortLines(_)
SortLines(s) == IF Len(s) = 0 THEN <<>> ELSE Insert(Head(s), SortLines(Tail(s)))

IsSorted(s) == \A i \in 1..(Len(s) - 1) : LineLE(s[i], s[i + 1])

\* ------------------------------------------------------ pure: Normalizer
\* line 59: "if k < j: continue" keeps the upper triangle and the diagonal
KeepAll(j, k) == TRUE
Keep(j, k) == ~(k < j)

\* line 61: "if j not in bads1 and k not in bads2"
NotBadRowOnly(j, k, bads1, bads2) == j \notin bads1
NotBad(j, k, bads1, bads2) == j \notin bads1 /\ k \notin bads2

\* line 62: n = v / bias1[j] / bias2[k] / decay[c][abs(j-k)], left to right.
\* The value is the fraction <<numerator, denominator>>; a lookup of a name
\* that was never bound, of a missing key, or a zero divisor raises.
Abs(x) == IF x < 0 THEN -x ELSE x

Normalize(m, c, j, k, v) ==
    IF ~m.bound THEN [raises |-> "NameError"]
    ELSE IF j \notin DOMAIN m.bias1 THEN [raises |-> "KeyError"]
    ELSE IF m.bias1[j] = 0 THEN [raises |-> "ZeroDivisionError"]
    ELSE IF k \notin DOMAIN m.bias2 THEN [raises |-> "KeyError"]
    ELSE IF m.bias2[k] = 0 THEN [raises |-> "ZeroDivisionError"]
    ELSE IF c \notin DOMAIN m.decay THEN [raises |-> "KeyError"]
    ELSE IF Abs(j - k) \notin DOMAIN m.decay[c] THEN [raises |-> "KeyError"]
    ELSE IF m.decay[c][Abs(j - k)] = 0 THEN [raises |-> "ZeroDivisionError"]
    ELSE [raises |-> "",
          n |-> << v, m.bias1[j] * m.bias2[k] * m.decay[c][Abs(j - k)] >>]

\* lines 63-65: the line written for a tuple, in run-wide coordinates
Line(start, j, k, v, n) == << j + start, k + start, v, n >>

\* -------------------------------------------------------------- the state
VARIABLES
    pc,          \* where the program is
    entry,       \* "main" (the script) or "write_matrix" (a direct call)
    header,      \* bamfile.lengths, in the order of bamfile.references
    outdir,      \* opts.outdir / the outdir argument
    resolution,  \* opts.resolution / the resolution argument
    biases,      \* opts.biases_file / the biases argument
    idx,         \* how many chromosomes main's loop has started
    region1,     \* the region of the running write_matrix (index in references)
    section_pos, \* write_matrix's section_pos
    rand_hash,   \* the run identifier read_bam returned
    nruns,       \* how many run identifiers were handed out
    tmpdirs,     \* the run identifiers whose <tmpdir>/_tmp_<hash> exists
    chunks,      \* the tuples of the region's chunk files, in merge order
    pos,         \* how many of them the chunk merger has yielded
    cmodel,      \* bias1, bias2, decay, bads1, bads2 of the running write_matrix
    out,         \* the path of the open output file, or None
    files,       \* the output files: path -> lines
    dirs,        \* the directories that exist
    finished,    \* the regions whose write_matrix returned
    all_tsv,     \* sort_BAMtsv: the globbed files not yet sorted
    tsv,         \* sort_BAMtsv: the file of the running sort, or None
    sortbuf,     \* the running sort: the sorted lines not yet written
    before,      \* each file a sort was started on: its lines at that moment
    sortfailed,  \* the files whose sort exited with an error
    err          \* the exception that ended the program, or ""

vars == << pc, entry, header, outdir, resolution, biases, idx, region1, section_pos,
           rand_hash, nruns, tmpdirs, chunks, pos, cmodel, out, files, dirs,
           finished, all_tsv, tsv, sortbuf, before, sortfailed, err >>

inputs == << entry, header, outdir, resolution, biases >>
wmvars == << region1, section_pos, rand_hash, nruns, tmpdirs, chunks, pos, cmodel,
            out >>
sortvars == << all_tsv, tsv, sortbuf, before, sortfailed >>

\* ------------------------------------------------------------ the inputs
\* the local bins of a region: 0 .. sections[region] - 1
Bins(region, res) == 0 .. (SectionSize(header[region], res) - 1)

\* the raw count of a pair of bins: symmetric, as both orientations of a
\* pair carry the same count
RawCount(j, k) == 1 + j + k

\* what _iter_matrix_frags yields for a region: tuples (c, j, k, v), each
\* ordered pair of bins at most once, in any order
Streams(region, res) ==
    LET B == Bins(region, res)
        T == { << region, j, k, RawCount(j, k) >> : j \in B, k \in B }
    IN  { s \in UNION { [1..n -> T] : n \in 0..MaxTuples } :
            \A a, b \in 1..Len(s) : a # b => s[a] # s[b] }

\* a bias factor: zero, or a positive one
BiasVals == {0, 1}

\* what get_biases_region returns for a region: bias vectors without the
\* entries of the masked bins, a decay table whose support may be shorter
\* than the region, and the masked bins of each axis
Models(region, res) ==
    LET B == Bins(region, res)
    IN  UNION { UNION { {
            [bound |-> TRUE, bads1 |-> b1, bads2 |-> b2, bias1 |-> f1, bias2 |-> f2,
             decay |-> (region :> [d \in 0..m |-> d + 1])] :
                f1 \in [B \ b1 -> BiasVals], f2 \in [B \ b2 -> BiasVals],
                m \in 0..(Cardinality(B) - 1) } :
            b1 \in SUBSET B } : b2 \in SUBSET B }

\* lines 45-46: bads1 = bads2 = {}, and bias1, bias2, decay stay unbound
NoModel ==
    [bound |-> FALSE, bads1 |-> {}, bads2 |-> {}, bias1 |-> <<>>, bias2 |-> <<>>,
     decay |-> <<>>]

EmptyFiles == [p \in {} |-> <<>>]

\* the directories there before the run: the root, the working directory,
\* and possibly, for a relative outdir, a directory of the same name in it
BaseDirs == { <<"/">>, <<>> }
PreExisting(dir) ==
    IF StartsWithSlash(dir) THEN { BaseDirs }
    ELSE { BaseDirs, BaseDirs \cup { AsDir(dir), AsDir(dir) \o AsDir(dir) } }

Init ==
    /\ pc = "start"
    /\ entry \in { "main", "write_matrix" }
    /\ header = lengths
    /\ outdir \in OutDirs
    /\ resolution \in Resolutions
    /\ biases \in BiasFiles
    /\ idx = 0
    /\ region1 = 0
    /\ section_pos = <<>>
    /\ rand_hash = 0
    /\ nruns = 0
    /\ tmpdirs = {}
    /\ chunks = <<>>
    /\ pos = 0
    /\ cmodel = NoModel
    /\ out = None
    /\ files = EmptyFiles
    /\ dirs \in PreExisting(outdir)
    /\ finished = {}
    /\ all_tsv = {}
    /\ tsv = None
    /\ sortbuf = <<>>
    /\ before = EmptyFiles
    /\ sortfailed = {}
    /\ err = ""

\* an exception nobody catches: it leaves write_matrix, leaves main, and ends
\* the program with a traceback
Raise(e) == pc' = "failed" /\ err' = e

\* ------------------------------------------------------------------ main
\* lines 84-99: the options, the header, and load(open(biases_file))
MainStart ==
    /\ pc = "start" /\ entry = "main"
    /\ IF biases = "" THEN Raise("IOError") ELSE pc' = "loop" /\ err' = err
    /\ UNCHANGED << inputs, idx, wmvars, files, dirs, finished, sortvars >>

\* where main goes on once it has started i chromosomes: the next
\* chromosome of the header, and sort_BAMtsv after the last (lines 100-105)
AfterRegionSortEarly(i) == "sort"
AfterRegion(i) == IF i < Len(references) THEN "call" ELSE "sort"

\* lines 100-102 and 105
MainLoop ==
    /\ pc = "loop"
    /\ IF AfterRegion(idx) = "call"
       THEN /\ idx' = idx + 1
            /\ region1' = idx + 1
            /\ pc' = "wm_read"
       ELSE /\ pc' = "sort_glob"
            /\ UNCHANGED << idx, region1 >>
    /\ UNCHANGED << inputs, section_pos, rand_hash, nruns, tmpdirs, chunks, pos,
                    cmodel, out, files, dirs, finished, sortvars, err >>

\* a caller other than main: write_matrix(inbam, resolution, biases, outdir,
\* region1=r)
DirectCall ==
    /\ pc = "start" /\ entry = "write_matrix"
    /\ \E r \in 1..Len(references) : region1' = r
    /\ pc' = "wm_read"
    /\ UNCHANGED << inputs, idx, section_pos, rand_hash, nruns, tmpdirs, chunks,
                    pos, cmodel, out, files, dirs, finished, sortvars, err >>

\* ---------------------------------------------------------- write_matrix
\* lines 24-46: read_bam scans the region into chunk files under
\* <tmpdir>/_tmp_<rand_hash>, section_pos is built from the header, and the
\* correction model of the region is loaded when biases is given
WM_Read ==
    /\ pc = "wm_read"
    /\ nruns' = nruns + 1
    /\ rand_hash' = nruns + 1
    /\ tmpdirs' = tmpdirs \cup { nruns + 1 }
    /\ chunks' \in Streams(region1, resolution)
    /\ pos' = 0
    /\ section_pos' = SectionPos(header, resolution)
    /\ IF biases # ""
       THEN cmodel' \in Models(region1, resolution)
       ELSE cmodel' = NoModel
    /\ pc' = "wm_open"
    /\ err' = err
    /\ UNCHANGED << inputs, idx, region1, out, files, dirs, finished, sortvars >>

\* lines 48-54: mkdir(outdir) and open(os.path.join(outdir, fnam), 'w')
WM_Open ==
    /\ pc = "wm_open"
    /\ dirs' = dirs \cup { AsDir(outdir) }
    /\ LET path == OpenPath(outdir, references[region1], resolution)
       IN  IF Dirname(path) \in dirs'
           THEN /\ files' = (path :> <<>>) @@ files
                /\ out' = path
                /\ pc' = "wm_merge" /\ err' = err
           ELSE /\ Raise("IOError")
                /\ UNCHANGED << files, out >>
    /\ UNCHANGED << inputs, idx, region1, section_pos, rand_hash, nruns, tmpdirs,
                    chunks, pos, cmodel, finished, sortvars >>

\* what is left of the run's temp directory when the loop raises: line 70 is
\* never reached (a cleanup in a finally clause, as a mutant)
TmpAfterRaiseCleaned(dset, h) == dset \ { h }
TmpAfterRaise(dset, h) == dset

\* lines 57-65: one tuple of the merged stream
WM_Merge ==
    /\ pc = "wm_merge" /\ pos < Len(chunks)
    /\ LET t == chunks[pos + 1]
           c == t[1]
           j == t[2]
           k == t[3]
           v == t[4]
           r == Normalize(cmodel, c, j, k, v)
       IN  /\ pos' = pos + 1
           /\ IF Keep(j, k) /\ NotBad(j, k, cmodel.bads1, cmodel.bads2)
              THEN IF r.raises # ""
                   THEN /\ Raise(r.raises)
                        /\ tmpdirs' = TmpAfterRaise(tmpdirs, rand_hash)
                        /\ files' = files
                   ELSE /\ files' = [files EXCEPT ![out] =
                               Append(@, Line(section_pos[region1][1], j, k, v, r.n))]
                        /\ UNCHANGED << pc, err, tmpdirs >>
              ELSE UNCHANGED << pc, err, tmpdirs, files >>
    /\ UNCHANGED << inputs, idx, region1, section_pos, rand_hash, nruns, chunks,
                    cmodel, out, dirs, finished, sortvars >>

\* line 67: the stream is exhausted and the file is closed
WM_Close ==
    /\ pc = "wm_merge" /\ pos = Len(chunks)
    /\ out' = None
    /\ pc' = "wm_clean"
    /\ UNCHANGED << inputs, idx, region1, section_pos, rand_hash, nruns, tmpdirs,
                    chunks, pos, cmodel, files, dirs, finished, sortvars, err >>

\* lines 69-73: rm -rf <tmpdir>/_tmp_<rand_hash>, and the return to the
\* caller, which ends the life of write_matrix's locals
WM_Clean ==
    /\ pc = "wm_clean"
    /\ tmpdirs' = tmpdirs \ { rand_hash }
    /\ finished' = finished \cup { region1 }
    /\ pc' = IF entry = "main" THEN "loop" ELSE "done"
    /\ chunks' = <<>> /\ pos' = 0 /\ cmodel' = NoModel /\ section_pos' = <<>>
    /\ UNCHANGED << inputs, idx, region1, rand_hash, nruns, out, files, dirs,
                    sortvars, err >>

\* ----------------------------------------------------------- sort_BAMtsv
\* line 76: all_tsv = glob.glob(outdir + "*_bam_%ikb.tsv" % (resolution / 1000))
SortGlob ==
    /\ pc = "sort_glob"
    /\ all_tsv' = { p \in DOMAIN files : GlobMatch(outdir, resolution, p) }
    /\ pc' = "sort_loop"
    /\ UNCHANGED << inputs, idx, wmvars, files, dirs, finished, tsv, sortbuf,
                    before, sortfailed, err >>

\* lines 77-80: the next file, and "sort -k1n -k2n tsv -o tsv" started on it;
\* after the last file sort_BAMtsv and main return
SortNext ==
    /\ pc = "sort_loop"
    /\ IF all_tsv = {}
       THEN /\ pc' = "done"
            /\ UNCHANGED << all_tsv, tsv, before >>
       ELSE /\ \E f \in all_tsv :
                 /\ tsv' = f
                 /\ all_tsv' = all_tsv \ { f }
                 /\ before' = (f :> files[f]) @@ before
            /\ pc' = "sort_read"
    /\ UNCHANGED << inputs, idx, wmvars, files, dirs, finished, sortbuf, sortfailed,
                    err >>

\* the sort process reads its whole input and then opens its output, the
\* same file, which truncates it; or it fails before that.  Line 81 waits
\* for it and ignores its exit status.
SortOpen ==
    /\ pc = "sort_read"
    /\ \/ /\ sortbuf' = SortLines(files[tsv])
          /\ files' = [files EXCEPT ![tsv] = <<>>]
          /\ pc' = "sort_write"
          /\ UNCHANGED << tsv, sortfailed >>
       \/ /\ sortfailed' = sortfailed \cup { tsv }
          /\ tsv' = None
          /\ pc' = "sort_loop"
          /\ UNCHANGED << sortbuf, files >>
    /\ UNCHANGED << inputs, idx, wmvars, dirs, finished, all_tsv, before, err >>

\* the sort process writes its output line by line, and may fail at any line
SortWrite ==
    /\ pc = "sort_write"
    /\ IF sortbuf = <<>>
       THEN /\ tsv' = None
            /\ pc' = "sort_loop"
            /\ UNCHANGED << files, sortbuf, sortfailed >>
       ELSE \/ /\ files' = [files EXCEPT ![tsv] = Append(@, Head(sortbuf))]
               /\ sortbuf' = Tail(sortbuf)
               /\ UNCHANGED << pc, tsv, sortfailed >>
            \/ /\ sortfailed' = sortfailed \cup { tsv }
               /\ sortbuf' = <<>>
               /\ tsv' = None
               /\ pc' = "sort_loop"
               /\ files' = files
    /\ UNCHANGED << inputs, idx, wmvars, dirs, finished, all_tsv, before, err >>

Next ==
    \/ MainStart
    \/ MainLoop
    \/ DirectCall
    \/ WM_Read
    \/ WM_Open
    \/ WM_Merge
    \/ WM_Close
    \/ WM_Clean
    \/ SortGlob
    \/ SortNext
    \/ SortOpen
    \/ SortWrite

Spec == Init /\ [][Next]_vars

\* ------------------------------------------- the section offsets alone
\* The header and the resolution range over every small value, and lines
\* 33-40 build section_pos from them.
Headers == UNION { [1..n -> 1..MaxLength] : n \in 1..MaxChroms }

InitSec ==
    /\ pc = "sec_start"
    /\ entry = "write_matrix"
    /\ header \in Headers
    /\ outdir = <<"/", "d", "/">>
    /\ resolution \in 1..MaxRes
    /\ biases = ""
    /\ idx = 0
    /\ region1 = 0
    /\ section_pos = <<>>
    /\ rand_hash = 0
    /\ nruns = 0
    /\ tmpdirs = {}
    /\ chunks = <<>>
    /\ pos = 0
    /\ cmodel = NoModel
    /\ out = None
    /\ files = EmptyFiles
    /\ dirs = BaseDirs
    /\ finished = {}
    /\ all_tsv = {}
    /\ tsv = None
    /\ sortbuf = <<>>
    /\ before = EmptyFiles
    /\ sortfailed = {}
    /\ err = ""

\* lines 33-40
SectionOffsets ==
    /\ pc = "sec_start"
    /\ section_pos' = SectionPos(header, resolution)
    /\ pc' = "sec_done"
    /\ UNCHANGED << inputs, idx, region1, rand_hash, nruns, tmpdirs, chunks, pos,
                    cmodel, out, files, dirs, finished, sortvars, err >>

NextSec == SectionOffsets

SpecSec == InitSec /\ [][NextSec]_vars

\* ============================================================ the claims
LoopErrors == { "NameError", "KeyError", "ZeroDivisionError" }

\* write_matrix is in, or past, its loop over the merged stream, or was
\* ended by an exception of the loop
InLoop ==
    \/ pc \in { "wm_merge", "wm_clean" }
    \/ pc = "failed" /\ err \in LoopErrors

\* the output file of the running write_matrix and its lines
CurFile == IF out # None THEN out ELSE OpenPath(outdir, references[region1], resolution)
CurLines == files[CurFile]
Start == section_pos[region1][1]
\* the lines written at the position of the local pair (j, k)
LinesAt(j, k) ==
    { i \in 1..Len(CurLines) : CurLines[i][1] = j + Start /\ CurLines[i][2] = k + Start }
\* the tuples the merger has yielded
Yielded == { chunks[i] : i \in 1..pos }
\* the tuple an exception of the loop was raised on
RaisedOn(i) == pc = "failed" /\ err \in LoopErrors /\ pos = i

C2_LaterRegionsAttempted ==
    (entry = "main" /\ pc = "failed" /\ idx >= 1) => idx = Len(references)

\* C3 (as claimed): without a correction model the loop never raises, and
\* every yielded tuple of the upper triangle whose bins are not masked has
\* exactly one line, with the normalised value equal to the raw count.
C3_NoModelPassThrough ==
    (InLoop /\ ~cmodel.bound) =>
        /\ err = ""
        /\ \A i \in 1..pos :
              LET j == chunks[i][2]
                  k == chunks[i][3]
                  v == chunks[i][4]
              IN  (k >= j /\ j \notin cmodel.bads1 /\ k \notin cmodel.bads2) =>
                    Cardinality({ l \in 1..Len(CurLines) :
                        CurLines[l] = << j + Start, k + Start, v, << v, 1 >> >> }) = 1

\* the normalisation of a tuple divides by zero or finds no decay entry
Undefined(i) ==
    LET c == chunks[i][1]
        j == chunks[i][2]
        k == chunks[i][3]
    IN  \/ cmodel.bias1[j] = 0
        \/ cmodel.bias2[k] = 0
        \/ Abs(j - k) \notin DOMAIN cmodel.decay[c]

\* C5 (as claimed): with a correction model, a tuple whose normalisation
\* divides by zero or finds no decay entry gets no line and does not end
\* the region.
C5_UndefinedDropped ==
    (InLoop /\ cmodel.bound) =>
        \A i \in 1..pos :
            LET j == chunks[i][2]
                k == chunks[i][3]
            IN  (k >= j /\ j \notin cmodel.bads1 /\ k \notin cmodel.bads2
                   /\ Undefined(i)) =>
                    (LinesAt(j, k) = {} /\ ~RaisedOn(i))

\* both orientations of the pair {j, k} were yielded
BothYielded(j, k) ==
    /\ \E t \in Yielded : t[2] = j /\ t[3] = k
    /\ \E t \in Yielded : t[2] = k /\ t[3] = j

\* C6 (as claimed): in a region that was written to its end, no line has
\* col < row, and a pair yielded in both orientations has exactly one line.
C6_ExactlyOneLine ==
    pc = "wm_clean" =>
        /\ \A l \in 1..Len(CurLines) : CurLines[l][2] >= CurLines[l][1]
        /\ \A j, k \in Bins(region1, resolution) :
              (j < k /\ BothYielded(j, k)) =>
                  Cardinality(LinesAt(j, k) \cup LinesAt(k, j)) = 1

\* C6 (amended): no line has col < row; a pair yielded in both orientations
\* has at most one line; and in a region written to its end it has exactly
\* one line unless its row bin is masked on the row axis or its column bin
\* on the column axis, and then none.
C6_AtMostOneLine ==
    InLoop =>
        /\ \A l \in 1..Len(CurLines) : CurLines[l][2] >= CurLines[l][1]
        /\ \A j, k \in Bins(region1, resolution) :
              (j < k /\ BothYielded(j, k)) =>
                  /\ LinesAt(k, j) = {}
                  /\ Cardinality(LinesAt(j, k)) <= 1
                  /\ pc = "wm_clean" =>
                        (Cardinality(LinesAt(j, k)) =
                            IF j \in cmodel.bads1 \/ k \in cmodel.bads2 THEN 0 ELSE 1)

\* C6 witness: a region written to its end in which a pair was yielded in
\* both orientations and has its one line.
C6_Witness ==
    /\ pc = "wm_clean"
    /\ \E j, k \in Bins(region1, resolution) :
          j < k /\ BothYielded(j, k) /\ Cardinality(LinesAt(j, k)) = 1

\* C7: a yielded tuple whose row bin is masked on the row axis or whose
\* column bin is masked on the column axis has no line and raised nothing
\* (the bias vectors have no entry for a masked bin, so a lookup would
\* raise); a tuple of the upper triangle masked on neither of its own axes
\* was normalised (a line, or the exception its normalisation raised),
\* whatever the other axis's set holds.
C7_BadBinsPerAxis ==
    InLoop =>
        \A i \in 1..pos :
            LET j == chunks[i][2]
                k == chunks[i][3]
            IN  /\ (j \in cmodel.bads1 \/ k \in cmodel.bads2) =>
                      (LinesAt(j, k) = {} /\ ~RaisedOn(i))
                /\ (k >= j /\ j \notin cmodel.bads1 /\ k \notin cmodel.bads2) =>
                      (Cardinality(LinesAt(j, k)) = 1 \/ RaisedOn(i))

\* C7 witness: one yielded tuple was dropped for its column bin alone, and
\* another, whose row bin is in the column set only, has its line.
C7_Witness ==
    /\ InLoop
    /\ \E a, b \in 1..pos :
          /\ chunks[a][3] >= chunks[a][2]
          /\ chunks[a][2] \notin cmodel.bads1 /\ chunks[a][3] \in cmodel.bads2
          /\ LinesAt(chunks[a][2], chunks[a][3]) = {}
          /\ chunks[b][2] \in cmodel.bads2 \ cmodel.bads1
          /\ chunks[b][3] \notin cmodel.bads2
          /\ LinesAt(chunks[b][2], chunks[b][3]) # {}

\* C8 (as claimed): a file whose sort failed holds what it held before the
\* sort was started, and a file a sort was started on never holds anything
\* but its lines of before or those lines sorted.
C8_SortAtomic ==
    /\ \A f \in sortfailed : files[f] = before[f]
    /\ \A f \in DOMAIN before :
          files[f] = before[f] \/ files[f] = SortLines(before[f])

SortPcs == { "sort_glob", "sort_loop", "sort_read", "sort_write" }

\* C9: while sort_BAMtsv runs, write_matrix has returned for every
\* chromosome of the header and no output file is open; and once
\* sort_BAMtsv has begun the program never goes back to writing a region.
C9_SortAfterAllRegions ==
    /\ [](pc \in SortPcs =>
            (finished = 1..Len(references) /\ out = None /\ idx = Len(references)))
    /\ [][(pc \in SortPcs) => (pc' \in SortPcs \cup { "done" })]_vars

\* C9 witness: a sort is writing its output, every region being written.
C9_Witness ==
    /\ pc = "sort_write" /\ sortbuf # <<>>
    /\ finished = 1..Len(references)

\* the path the interface names: <outdir>/<region>_bam_<resolution/1000>kb.tsv
Expected(r) == AsDir(outdir) \o << references[r] >> \o Suffix(resolution)

\* C10 (as claimed): the file write_matrix opens is the one the interface
\* names and one the sort pass selects, and after a run of main in which no
\* sort failed every region's file is there and sorted.
C10_PathSelectedAndSorted ==
    /\ out # None => (out = Expected(region1) /\ GlobMatch(outdir, resolution, out))
    /\ (entry = "main" /\ pc = "done" /\ sortfailed = {}) =>
          \A r \in 1..Len(references) :
              Expected(r) \in DOMAIN files /\ IsSorted(files[Expected(r)])

\* the sum of the sizes of the first n chromosomes, as the claim (ceiling)
\* and as the code (floor plus one) has them
RECURSIVE CeilSum(_)
CeilSum(n) ==
    IF n = 0 THEN 0
    ELSE CeilSum(n - 1) + (header[n] + resolution - 1) \div resolution
RECURSIVE FloorSum(_)
FloorSum(n) ==
    IF n = 0 THEN 0 ELSE FloorSum(n - 1) + (header[n] \div resolution + 1)

Contiguous ==
    \A i \in 1..Len(header) :
        section_pos[i][1] = (IF i = 1 THEN 0 ELSE section_pos[i - 1][2])

\* C4 (as claimed): the ranges are contiguous from 0 in header order, each
\* of width ceil(length / r), and the last ends at the sum of the widths.
C4_CeilWidths ==
    pc = "sec_done" =>
        /\ Contiguous
        /\ \A i \in 1..Len(header) :
              section_pos[i][2] - section_pos[i][1] =
                  (header[i] + resolution - 1) \div resolution
        /\ section_pos[Len(header)][2] = CeilSum(Len(header))

\* C4 (amended): the ranges are contiguous from 0 in header order, each of
\* width floor(length / r) + 1, and the last ends at the sum of the widths.
C4_FloorPlusOneWidths ==
    pc = "sec_done" =>
        /\ Contiguous
        /\ \A i \in 1..Len(header) :
              section_pos[i][2] - section_pos[i][1] = header[i] \div resolution + 1
        /\ section_pos[Len(header)][2] = FloorSum(Len(header))

\* C4 witness: offsets built for two chromosomes, the first a whole number
\* of bins long, where floor + 1 and the ceiling differ.
C4_Witness ==
    /\ pc = "sec_done"
    /\ Len(header) = 2 /\ resolution > 1
    /\ header[1] % resolution = 0
    /\ section_pos[2][1] = header[1] \div resolution + 1

====
